---- MODULE Spec2Model ----
(***************************************************************************)
(* Client-side connection selection of grpc-go: the connectivity state     *)
(* evaluator and the balancer registry of package balancer, the           *)
(* customRoundrobin picker with its per-request address override, the     *)
(* balancer's reconciliation of its SubConns with the resolver state, and  *)
(* stickyKeyFromContext, which reads the override from outgoing metadata.  *)
(***************************************************************************)
EXTENDS Integers, Sequences, FiniteSets, TLC

(***************************************************************************)
(* Bounds of the model.                                                    *)
(***************************************************************************)
NumHandles == 2        \* SubConns tracked by the evaluator
MaxStray == 2          \* RecordTransition calls not tied to a handle's state
NumSubConns == 3       \* SubConns the balancer may hand to the picker builder
NumGoroutines == 2     \* goroutines calling Pick on one picker
MaxPicks == 3          \* Pick calls made on one picker
MaxRegs == 3           \* Register calls
MaxUnregs == 1         \* unregisterForTesting calls
MaxWant == 2           \* length of the want lists tried besides the test table's
MaxGot == 4            \* length of the lists f cycles through, likewise
NumFairSubConns == 1   \* SubConns handed to the builder where liveness is checked
MaxUpdates == 3        \* UpdateClientConnState calls on one balancer
MaxAddrs == 2          \* addresses in one resolver state
MaxVals == 1           \* values under one key of the metadata map
MaxAdded == 1          \* key-value lists appended to the outgoing context
MaxPairs == 2          \* pairs in one appended key-value list

VARIABLES
    numReady,          \* cse.numReady, a uint64
    numConnecting,     \* cse.numConnecting, a uint64
    scStates,          \* the state each SubConn is in, as last reported
    aggregated,        \* what the last RecordTransition returned
    consistent,        \* every call so far had oldState = the handle's state
    strayCalls,        \* calls made so far that were not tied to a handle
    lastCall,          \* oldState and newState of the last RecordTransition call
    seenRC             \* some call so far named Ready or Connecting

VARIABLES
    picker,            \* what Build returned: "none" before Build, "rr" or "err"
    readySCs,          \* info.ReadySCs as given to Build
    subConns,          \* p.subConns
    next,              \* p.next
    cursor0,           \* the value Build gave p.next
    mu,                \* p.mu: TRUE while locked
    pc,                \* where each goroutine is in Pick
    ctx,               \* pi.Ctx of each goroutine's call: the value under "lb-addr"
    chosenSc,          \* each goroutine's local chosenSc
    log                \* what the Pick calls returned, in the order they returned

cseVars == <<numReady, numConnecting, scStates, aggregated, consistent, strayCalls,
             lastCall, seenRC>>

pickerVars == <<picker, readySCs, subConns, next, cursor0, mu, pc, ctx, chosenSc, log>>

VARIABLES
    m,                 \* the balancer map, lower-cased name -> Builder
    registered,        \* the Builders given to Register, in call order
    unregs,            \* unregisterForTesting calls made so far
    unregName,         \* the name given to the last unregisterForTesting call
    got                \* the last Get call: the name asked for and the result

VARIABLES
    want,              \* IsRoundRobin's want
    tcR,               \* testClosure.r, the values f cycles through
    tcI,               \* testClosure.i
    row,               \* the row of TestIsRoundRobin's table run, 0 if none
    rrpc,              \* where IsRoundRobin is: "first", "second", "done"
    wantSet,           \* SubConn -> count still wanted in the first iteration
    gotSliceFirstIteration,
    second,            \* values compared so far in the second iteration
    result             \* "pending", then "nil" or "error"

VARIABLES
    bSubConns,         \* the balancer's SubConns, address -> handle
    handleSeq,         \* handles NewSubConn has returned so far
    resolverState,     \* the addresses of the last UpdateClientConnState call
    resolverPrev,      \* the addresses of the call before it
    updates,           \* UpdateClientConnState calls made so far
    newSubConns,       \* addresses the last call gave to NewSubConn
    removeSubConns     \* handles the last call gave to RemoveSubConn

balVars == <<bSubConns, handleSeq, resolverState, resolverPrev, updates,
             newSubConns, removeSubConns>>

VARIABLES
    stickinessMDKey,   \* the key stickyKeyFromContext is called with
    outgoing,          \* the raw outgoing metadata of ctx: ok, md, added
    stickyCalled,      \* stickyKeyFromContext has returned
    sticky             \* what it returned

stickyVars == <<stickinessMDKey, outgoing, stickyCalled, sticky>>

regVars == <<m, registered, unregs, unregName, got>>

isrrVars == <<want, tcR, tcI, row, rrpc, wantSet, gotSliceFirstIteration, second, result>>

notCSE == <<stickyVars, pickerVars, regVars, isrrVars, balVars>>

notPicker == <<stickyVars, cseVars, regVars, isrrVars, balVars>>

notReg == <<stickyVars, cseVars, pickerVars, isrrVars, balVars>>

notIsRR == <<stickyVars, cseVars, pickerVars, regVars, balVars>>

notBal == <<stickyVars, cseVars, pickerVars, regVars, isrrVars>>

notSticky == <<cseVars, pickerVars, regVars, isrrVars, balVars>>

vars == <<cseVars, pickerVars, regVars, isrrVars, balVars, stickyVars>>

(***************************************************************************)
(* uint64 arithmetic.  A uint64 is four 16-bit limbs, least significant    *)
(* first; sums and differences wrap modulo 2^64 as Go's do.                *)
(***************************************************************************)
LimbBase == 2^16

Uint64 == [1..4 -> 0..(LimbBase - 1)]

ToUint64(n) ==
    [i \in 1..4 |-> IF i = 1 THEN n % LimbBase
                    ELSE IF i = 2 THEN (n \div LimbBase) % LimbBase
                    ELSE 0]

\* an addition that stays at 2^64 - 1 instead of wrapping
Add64Saturating(a, b) ==
    LET s1 == a[1] + b[1]
        s2 == a[2] + b[2] + (s1 \div LimbBase)
        s3 == a[3] + b[3] + (s2 \div LimbBase)
        s4 == a[4] + b[4] + (s3 \div LimbBase)
    IN  IF s4 >= LimbBase
        THEN [i \in 1..4 |-> LimbBase - 1]
        ELSE [i \in 1..4 |-> IF i = 1 THEN s1 % LimbBase
                             ELSE IF i = 2 THEN s2 % LimbBase
                             ELSE IF i = 3 THEN s3 % LimbBase
                             ELSE s4]

Add64(a, b) ==
    LET s1 == a[1] + b[1]
        s2 == a[2] + b[2] + (s1 \div LimbBase)
        s3 == a[3] + b[3] + (s2 \div LimbBase)
        s4 == a[4] + b[4] + (s3 \div LimbBase)
    IN  [i \in 1..4 |-> IF i = 1 THEN s1 % LimbBase
                        ELSE IF i = 2 THEN s2 % LimbBase
                        ELSE IF i = 3 THEN s3 % LimbBase
                        ELSE s4 % LimbBase]

Sub64(a, b) ==
    LET d1 == a[1] - b[1]
        w1 == IF d1 < 0 THEN 1 ELSE 0
        d2 == a[2] - b[2] - w1
        w2 == IF d2 < 0 THEN 1 ELSE 0
        d3 == a[3] - b[3] - w2
        w3 == IF d3 < 0 THEN 1 ELSE 0
        d4 == a[4] - b[4] - w3
    IN  [i \in 1..4 |-> IF i = 1 THEN d1 % LimbBase
                        ELSE IF i = 2 THEN d2 % LimbBase
                        ELSE IF i = 3 THEN d3 % LimbBase
                        ELSE d4 % LimbBase]

Zero64 == ToUint64(0)

IsPositive64(a) == a # Zero64

(***************************************************************************)
(* connectivity.State and the evaluator.                                   *)
(***************************************************************************)
States == {"Idle", "Connecting", "Ready", "TransientFailure", "Shutdown"}

Handles == 1..NumHandles

\* updateVal := 2*uint64(idx) - 1, idx 0 for oldState and 1 for newState
UpdateValAlwaysPlus(idx) == ToUint64(1)

UpdateVal(idx) == Sub64(ToUint64(2 * idx), ToUint64(1))

\* one round of the loop over {oldState, newState}
UpdateCountersIgnoringOld(c, state, idx) ==
    IF idx = 0 THEN c
    ELSE IF state = "Ready"
    THEN [c EXCEPT !.numReady = Add64(c.numReady, UpdateVal(idx))]
    ELSE IF state = "Connecting"
    THEN [c EXCEPT !.numConnecting = Add64(c.numConnecting, UpdateVal(idx))]
    ELSE c

UpdateCountersIdleAsConnecting(c, state, idx) ==
    IF state = "Ready"
    THEN [c EXCEPT !.numReady = Add64(c.numReady, UpdateVal(idx))]
    ELSE IF state \in {"Connecting", "Idle"}
    THEN [c EXCEPT !.numConnecting = Add64(c.numConnecting, UpdateVal(idx))]
    ELSE c

UpdateCounters(c, state, idx) ==
    IF state = "Ready"
    THEN [c EXCEPT !.numReady = Add64(c.numReady, UpdateVal(idx))]
    ELSE IF state = "Connecting"
    THEN [c EXCEPT !.numConnecting = Add64(c.numConnecting, UpdateVal(idx))]
    ELSE c

EvaluateIdleWhenNone(c) ==
    IF IsPositive64(c.numReady) THEN "Ready"
    ELSE IF IsPositive64(c.numConnecting) THEN "Connecting"
    ELSE "Idle"

EvaluateConnectingFirst(c) ==
    IF IsPositive64(c.numConnecting) THEN "Connecting"
    ELSE IF IsPositive64(c.numReady) THEN "Ready"
    ELSE "TransientFailure"

Evaluate(c) ==
    IF IsPositive64(c.numReady) THEN "Ready"
    ELSE IF IsPositive64(c.numConnecting) THEN "Connecting"
    ELSE "TransientFailure"

\* the counters after the call and the value returned
RecordTransition(c, oldState, newState) ==
    LET c1 == UpdateCounters(c, oldState, 0)
        c2 == UpdateCounters(c1, newState, 1)
    IN  [numReady |-> c2.numReady, numConnecting |-> c2.numConnecting,
         ret |-> Evaluate(c2)]

Counters == [numReady |-> numReady, numConnecting |-> numConnecting]

CSEStart ==
    /\ numReady = Zero64
    /\ numConnecting = Zero64
    /\ scStates \in [Handles -> {"Idle", "TransientFailure", "Shutdown"}]
    /\ aggregated = "none"
    /\ consistent = TRUE
    /\ strayCalls = 0
    /\ lastCall = [oldState |-> "none", newState |-> "none"]
    /\ seenRC = FALSE

\* the balancer reports SubConn h moving from the state it is in to newState
RecordHandleTransition ==
    \E h \in Handles, newState \in States :
        LET r == RecordTransition(Counters, scStates[h], newState)
        IN  /\ numReady' = r.numReady
            /\ numConnecting' = r.numConnecting
            /\ aggregated' = r.ret
            /\ scStates' = [scStates EXCEPT ![h] = newState]
            /\ lastCall' = [oldState |-> scStates[h], newState |-> newState]
            /\ seenRC' = (seenRC \/ {scStates[h], newState} \cap {"Ready", "Connecting"} # {})
            /\ UNCHANGED <<consistent, strayCalls, notCSE>>

\* a call whose oldState is no handle's recorded state
RecordStrayTransition ==
    \E oldState \in States, newState \in States :
        LET r == RecordTransition(Counters, oldState, newState)
        IN  /\ strayCalls < MaxStray
            /\ numReady' = r.numReady
            /\ numConnecting' = r.numConnecting
            /\ aggregated' = r.ret
            /\ consistent' = FALSE
            /\ strayCalls' = strayCalls + 1
            /\ lastCall' = [oldState |-> oldState, newState |-> newState]
            /\ seenRC' = (seenRC \/ {oldState, newState} \cap {"Ready", "Connecting"} # {})
            /\ UNCHANGED <<scStates, notCSE>>

\* the reference the evaluator is compared with: a scan of every handle
Rescan(st) ==
    IF \E h \in DOMAIN st : st[h] = "Ready" THEN "Ready"
    ELSE IF \E h \in DOMAIN st : st[h] = "Connecting" THEN "Connecting"
    ELSE "TransientFailure"

(***************************************************************************)
(* The customRoundrobin picker.                                            *)
(***************************************************************************)
SubConnIds == 1..NumSubConns

Goroutines == 1..NumGoroutines

Nil == 0               \* the nil SubConn

NoValue == "<none>"    \* the context carries no string under "lb-addr"

Addresses == <<"host-a:443", "host-b:443">>

\* curAddr.Addr of a SubConn; SubConns of resolver addresses that differ in
\* ServerName or Attributes only have the same Addr
AddrOf(sc) == Addresses[((sc - 1) % Len(Addresses)) + 1]

\* what a request may carry under "lb-addr": nothing, the address of a
\* backend, or that address in upper case, which is the address of none
CtxValues == {NoValue, "host-a:443", "HOST-A:443"}

\* the orders in which ranging over the map info.ReadySCs may yield its keys
Orders(S) ==
    {f \in [1..Cardinality(S) -> S] : \A i, j \in DOMAIN f : f[i] = f[j] => i = j}

\* rrPickerBuilder.Build: scs is info.ReadySCs in the order the range loop
\* yields it, r the value of grpcrand.Intn(len(scs))
BuildWithoutEmptyCheck(scs, r) ==
    [kind |-> "rr", subConns |-> scs, next |-> r]

BuildPicker(scs, r) ==
    IF Len(scs) = 0
    THEN [kind |-> "err", subConns |-> <<>>, next |-> 0]
    ELSE [kind |-> "rr", subConns |-> scs, next |-> r]

\* overwriteAddr, ok := pi.Ctx.Value(OverWriteKeyName).(string)
OverwriteAddr(c) == [ok |-> c # NoValue, addr |-> IF c = NoValue THEN "" ELSE c]

\* for _, sc := range p.subConns { if curAddr.Addr == overwriteAddr { chosenSc = sc } }
RECURSIVE RangeSubConnsWithBreak(_, _, _, _)
RangeSubConnsWithBreak(scs, i, overwriteAddr, chosen) ==
    IF i > Len(scs) THEN chosen
    ELSE IF AddrOf(scs[i]) = overwriteAddr THEN scs[i]
    ELSE RangeSubConnsWithBreak(scs, i + 1, overwriteAddr, chosen)

RECURSIVE RangeSubConns(_, _, _, _)
RangeSubConns(scs, i, overwriteAddr, chosen) ==
    IF i > Len(scs) THEN chosen
    ELSE RangeSubConns(scs, i + 1, overwriteAddr,
                       IF AddrOf(scs[i]) = overwriteAddr THEN scs[i] ELSE chosen)

\* the if/else of Pick up to the assignment of chosenSc; advance says that
\* the else branch was taken, whose next statement moves the cursor
LookupAlwaysAdvancing(p, c) ==
    LET k == OverwriteAddr(c)
    IN  IF k.ok
        THEN [chosenSc |-> RangeSubConns(p.subConns, 1, k.addr, Nil), advance |-> TRUE]
        ELSE [chosenSc |-> p.subConns[p.next + 1], advance |-> TRUE]

Lookup(p, c) ==
    LET k == OverwriteAddr(c)
    IN  IF k.ok
        THEN [chosenSc |-> RangeSubConns(p.subConns, 1, k.addr, Nil), advance |-> FALSE]
        ELSE [chosenSc |-> p.subConns[p.next + 1], advance |-> TRUE]

\* p.next = (p.next + 1) % len(p.subConns)
AdvanceStuck(p) == p

AdvanceByRotating(p) ==
    [p EXCEPT !.subConns = Tail(p.subConns) \o <<Head(p.subConns)>>]

AdvanceBackwards(p) ==
    [p EXCEPT !.next = (p.next + Len(p.subConns) - 1) % Len(p.subConns)]

AdvanceNoWrap(p) == [p EXCEPT !.next = p.next + 1]

Advance(p) == [p EXCEPT !.next = (p.next + 1) % Len(p.subConns)]

\* p.mu.Lock() returns only while the mutex is not held
LockNeverBlocks(held) == TRUE

CanLock(held) == ~held

\* p.mu.Unlock() leaves the mutex free
UnlockForgotten(held) == held

UnlockMutex(held) == FALSE

\* the picker base.NewErrPicker(err) returns: Pick yields no SubConn and err
ErrPickerPick == [sc |-> Nil, err |-> "ErrNoSubConnAvailable"]

ThePicker == [subConns |-> subConns, next |-> next]

PicksStarted == Len(log) + Cardinality({g \in Goroutines : pc[g] # "idle"})

PickerStart ==
    /\ picker = "none"
    /\ readySCs = {}
    /\ subConns = <<>>
    /\ next = 0
    /\ cursor0 = 0
    /\ mu = FALSE
    /\ pc = [g \in Goroutines |-> "idle"]
    /\ ctx = [g \in Goroutines |-> NoValue]
    /\ chosenSc = [g \in Goroutines |-> Nil]
    /\ log = <<>>

\* the balancer builds the picker from its Ready SubConns
BuildFrom(ids) ==
    \E ready \in SUBSET ids :
      \E scs \in Orders(ready) :
        \E r \in IF ready = {} THEN {0} ELSE 0..(Cardinality(ready) - 1) :
            LET p == BuildPicker(scs, r)
            IN  /\ picker = "none"
                /\ picker' = p.kind
                /\ readySCs' = ready
                /\ subConns' = p.subConns
                /\ next' = p.next
                /\ cursor0' = p.next
                /\ UNCHANGED <<mu, pc, ctx, chosenSc, log, notPicker>>

Build == BuildFrom(SubConnIds)

\* the same with fewer SubConns to choose the Ready set from
BuildFew == BuildFrom(1..NumFairSubConns)

\* goroutine g calls Pick with a request context
Call(g) ==
    \E c \in CtxValues :
        /\ picker = "rr"
        /\ pc[g] = "idle"
        /\ PicksStarted < MaxPicks
        /\ pc' = [pc EXCEPT ![g] = "lock"]
        /\ ctx' = [ctx EXCEPT ![g] = c]
        /\ UNCHANGED <<picker, readySCs, subConns, next, cursor0, mu, chosenSc, log, notPicker>>

\* g gets past p.mu.Lock()
Lock(g) ==
    /\ pc[g] = "lock"
    /\ CanLock(mu)
    /\ mu' = TRUE
    /\ pc' = [pc EXCEPT ![g] = "locked"]
    /\ UNCHANGED <<picker, readySCs, subConns, next, cursor0, ctx, chosenSc, log, notPicker>>

\* g reads the override address and assigns chosenSc
Choose(g) ==
    LET r == Lookup(ThePicker, ctx[g])
    IN  /\ pc[g] = "locked"
        /\ chosenSc' = [chosenSc EXCEPT ![g] = r.chosenSc]
        /\ pc' = [pc EXCEPT ![g] = IF r.advance THEN "chosen" ELSE "unlock"]
        /\ UNCHANGED <<picker, readySCs, subConns, next, cursor0, mu, ctx, log, notPicker>>

\* g moves the cursor
MoveCursor(g) ==
    LET p == Advance(ThePicker)
    IN  /\ pc[g] = "chosen"
        /\ subConns' = p.subConns
        /\ next' = p.next
        /\ pc' = [pc EXCEPT ![g] = "unlock"]
        /\ UNCHANGED <<picker, readySCs, cursor0, mu, ctx, chosenSc, log, notPicker>>

\* g unlocks p.mu and returns PickResult{SubConn: chosenSc}, nil; its
\* locals are gone
Unlock(g) ==
    /\ pc[g] = "unlock"
    /\ mu' = UnlockMutex(mu)
    /\ pc' = [pc EXCEPT ![g] = "idle"]
    /\ log' = Append(log, [ctx |-> ctx[g], sc |-> chosenSc[g], err |-> "nil"])
    /\ ctx' = [ctx EXCEPT ![g] = NoValue]
    /\ chosenSc' = [chosenSc EXCEPT ![g] = Nil]
    /\ UNCHANGED <<picker, readySCs, subConns, next, cursor0, notPicker>>

\* g calls Pick on the picker Build returned for an empty Ready set
ErrPick(g) ==
    \E c \in CtxValues :
        /\ picker = "err"
        /\ Len(log) < MaxPicks
        /\ log' = Append(log, [ctx |-> c, sc |-> ErrPickerPick.sc, err |-> ErrPickerPick.err])
        /\ UNCHANGED <<picker, readySCs, subConns, next, cursor0, mu, pc, ctx, chosenSc, notPicker>>

(***************************************************************************)
(* The balancer registry.  A name is the sequence of its characters.       *)
(***************************************************************************)
Uppers == <<"A", "B", "C", "D", "E", "F", "G", "H", "I", "J", "K", "L", "M",
            "N", "O", "P", "Q", "R", "S", "T", "U", "V", "W", "X", "Y", "Z">>

Lowers == <<"a", "b", "c", "d", "e", "f", "g", "h", "i", "j", "k", "l", "m",
            "n", "o", "p", "q", "r", "s", "t", "u", "v", "w", "x", "y", "z">>

\* strings.ToLower: an upper-case letter becomes its lower-case letter, any
\* other character stays
ToLowerChar(c) ==
    IF \E k \in DOMAIN Uppers : Uppers[k] = c
    THEN Lowers[CHOOSE k \in DOMAIN Uppers : Uppers[k] = c]
    ELSE c

ToLower(name) == [i \in DOMAIN name |-> ToLowerChar(name[i])]

\* the names Builders are registered and looked up with
Names == {<<"r", "r">>, <<"R", "R">>, <<"r", "R">>,
          <<"x", "d", "s", "_", "1">>, <<"X", "d", "S", "_", "1">>}

NilBuilder == [id |-> 0, name |-> <<>>]

\* m[key] = b
MapSet(mm, key, b) ==
    [k \in (DOMAIN mm) \cup {key} |-> IF k = key THEN b ELSE mm[k]]

\* delete(m, key)
MapDelete(mm, key) == [k \in (DOMAIN mm) \ {key} |-> mm[k]]

\* Register: m[strings.ToLower(b.Name())] = b
RegisterUnderNameAsGiven(mm, b) == MapSet(mm, b.name, b)

Register(mm, b) == MapSet(mm, ToLower(b.name), b)

\* unregisterForTesting: delete(m, name)
UnregisterForTesting(mm, name) == MapDelete(mm, name)

\* Get: m[strings.ToLower(name)] if there is one, else nil
Get(mm, name) ==
    IF ToLower(name) \in DOMAIN mm THEN mm[ToLower(name)] ELSE NilBuilder

RegStart ==
    /\ m = <<>>
    /\ registered = <<>>
    /\ unregs = 0
    /\ unregName = <<>>
    /\ got = [name |-> <<>>, b |-> NilBuilder]

\* Register is called with a new Builder whose Name() is name
RegisterCall ==
    \E name \in Names :
        LET b == [id |-> Len(registered) + 1, name |-> name]
        IN  /\ Len(registered) < MaxRegs
            /\ m' = Register(m, b)
            /\ registered' = Append(registered, b)
            /\ UNCHANGED <<unregs, unregName, got, notReg>>

UnregisterCall ==
    \E name \in Names :
        /\ unregs < MaxUnregs
        /\ m' = UnregisterForTesting(m, name)
        /\ unregs' = unregs + 1
        /\ unregName' = name
        /\ UNCHANGED <<registered, got, notReg>>

GetCall ==
    \E name \in Names :
        /\ got' = [name |-> name, b |-> Get(m, name)]
        /\ UNCHANGED <<m, registered, unregs, unregName, notReg>>

(***************************************************************************)
(* testutils.IsRoundRobin and the table of TestIsRoundRobin.               *)
(***************************************************************************)
TestSubConnIds == 1..3     \* sc1, sc2, sc3 of TestIsRoundRobin

\* the rows of the table: want, got, pass
TestCases == <<
    [want |-> <<>>, got |-> <<>>, pass |-> TRUE],
    [want |-> <<1>>, got |-> <<1, 1, 1, 1>>, pass |-> TRUE],
    [want |-> <<1>>, got |-> <<1, 2, 1>>, pass |-> FALSE],
    [want |-> <<1, 2>>, got |-> <<1, 2, 1, 2, 1, 2>>, pass |-> TRUE],
    [want |-> <<2, 1>>, got |-> <<1, 2, 1, 2, 1, 2>>, pass |-> TRUE],
    [want |-> <<1, 2>>, got |-> <<1, 1, 1, 2, 1, 2>>, pass |-> FALSE],
    [want |-> <<1, 2>>, got |-> <<1, 2, 1, 1, 1, 2>>, pass |-> FALSE],
    [want |-> <<1, 1, 2>>, got |-> <<1, 1, 2, 1, 1, 2>>, pass |-> TRUE],
    [want |-> <<1, 1, 2>>, got |-> <<1, 2, 1, 1, 2, 1>>, pass |-> TRUE],
    [want |-> <<1, 2, 3>>, got |-> <<1, 2, 3, 1, 2, 3, 1, 2, 3>>, pass |-> TRUE],
    [want |-> <<1, 2, 3>>, got |-> <<3, 2, 1, 3, 2, 1>>, pass |-> TRUE],
    [want |-> <<1, 1, 1, 2, 2, 3>>,
     got |-> <<1, 2, 3, 1, 2, 1, 1, 2, 3, 1, 2, 1>>, pass |-> TRUE],
    [want |-> <<1, 1, 1, 2, 2, 3>>,
     got |-> <<1, 2, 1, 1, 2, 1, 1, 2, 3, 1, 2, 1>>, pass |-> FALSE],
    [want |-> <<1, 1, 1, 2, 2, 3>>,
     got |-> <<1, 2, 3, 1, 2, 1, 1, 1, 3, 1, 2, 1>>, pass |-> FALSE] >>

\* the sequences over S of length lo..hi
SeqsOf(S, lo, hi) == UNION {[1..n -> S] : n \in lo..hi}

\* wantSet after the loop over want: how often each SubConn occurs in it
CountIn(wnt) ==
    [sc \in TestSubConnIds |-> Cardinality({i \in DOMAIN wnt : wnt[i] = sc})]

\* the first iteration accepts a value while its count has not gone below 0
FirstAcceptsInOrderOfWant(wnt, gotSlice, ws) ==
    gotSlice[Len(gotSlice)] = wnt[Len(gotSlice)]

FirstAccepts(wnt, gotSlice, ws) == ws[gotSlice[Len(gotSlice)]] >= 0

IsRRStart ==
    /\ \/ /\ row \in DOMAIN TestCases
          /\ want = TestCases[row].want
          /\ tcR = TestCases[row].got
       \/ /\ row = 0
          /\ want \in SeqsOf(1..2, 0, MaxWant)
          /\ tcR \in SeqsOf(1..2, 1, MaxGot)
    /\ tcI = 0
    /\ rrpc = "first"
    /\ wantSet = CountIn(want)
    /\ gotSliceFirstIteration = <<>>
    /\ second = 0
    /\ result = "pending"

\* testClosure.next: ret := tc.r[tc.i]; tc.i = (tc.i + 1) % len(tc.r)
ClosureNext == [ret |-> tcR[tcI + 1], i |-> (tcI + 1) % Len(tcR)]

\* one round of the first loop: a value of f is counted off wantSet
FirstIteration ==
    LET g == ClosureNext.ret
        slice == Append(gotSliceFirstIteration, g)
        ws == [wantSet EXCEPT ![g] = @ - 1]
    IN  /\ rrpc = "first"
        /\ Len(gotSliceFirstIteration) < Len(want)
        /\ tcI' = ClosureNext.i
        /\ gotSliceFirstIteration' = slice
        /\ wantSet' = ws
        /\ IF FirstAccepts(want, slice, ws)
           THEN UNCHANGED <<rrpc, result>>
           ELSE rrpc' = "done" /\ result' = "error"
        /\ UNCHANGED <<want, tcR, row, second, notIsRR>>

\* the first loop has run len(want) rounds
FirstIterationOver ==
    /\ rrpc = "first"
    /\ Len(gotSliceFirstIteration) = Len(want)
    /\ rrpc' = "second"
    /\ UNCHANGED <<want, tcR, tcI, row, wantSet, gotSliceFirstIteration, second, result, notIsRR>>

\* one round of the second loop: a value of f is compared with the value
\* the first iteration got at the same place
SecondIteration ==
    LET g == ClosureNext.ret
    IN  /\ rrpc = "second"
        /\ second < Len(gotSliceFirstIteration)
        /\ tcI' = ClosureNext.i
        /\ second' = second + 1
        /\ IF g = gotSliceFirstIteration[second + 1]
           THEN UNCHANGED <<rrpc, result>>
           ELSE rrpc' = "done" /\ result' = "error"
        /\ UNCHANGED <<want, tcR, row, wantSet, gotSliceFirstIteration, notIsRR>>

\* both loops are through: return nil
ReturnNil ==
    /\ rrpc = "second"
    /\ second = Len(gotSliceFirstIteration)
    /\ rrpc' = "done"
    /\ result' = "nil"
    /\ UNCHANGED <<want, tcR, tcI, row, wantSet, gotSliceFirstIteration, second, notIsRR>>

(***************************************************************************)
(* The balancer behind the Balancer interface: UpdateClientConnState keeps *)
(* one SubConn per resolved address.                                       *)
(***************************************************************************)
AddressSet == {Addresses[i] : i \in DOMAIN Addresses}

\* the address lists a resolver may report, repetitions included
ResolverStates == UNION {[1..k -> AddressSet] : k \in 0..MaxAddrs}

AddrsOf(addrs) == {addrs[i] : i \in DOMAIN addrs}

\* the position of an address among the addresses
AddrIndex(a) == CHOOSE i \in DOMAIN Addresses : Addresses[i] = a

\* what a call has to create and to remove: SubConns for the addresses seen
\* for the first time, and the SubConns of the addresses no longer present
ReconcileRecreatingAll(scs, addrs) ==
    [create |-> AddrsOf(addrs), remove |-> DOMAIN scs]

Reconcile(scs, addrs) ==
    [create |-> AddrsOf(addrs) \ DOMAIN scs,
     remove |-> (DOMAIN scs) \ AddrsOf(addrs)]

\* the handle NewSubConn returns for address a when seq handles exist and
\* the addresses in create get theirs in the order of the addresses
NewHandle(seq, create, a) ==
    seq + Cardinality({b \in create : AddrIndex(b) <= AddrIndex(a)})

BalStart ==
    /\ bSubConns = <<>>
    /\ handleSeq = 0
    /\ resolverState = <<>>
    /\ resolverPrev = <<>>
    /\ updates = 0
    /\ newSubConns = {}
    /\ removeSubConns = {}

\* the channel delivers a resolver state to the balancer
UpdateClientConnState ==
    \E addrs \in ResolverStates :
        LET rec == Reconcile(bSubConns, addrs)
        IN  /\ updates < MaxUpdates
            /\ bSubConns' =
                   [a \in ((DOMAIN bSubConns) \cup AddrsOf(addrs)) \ rec.remove |->
                        IF a \in rec.create
                        THEN NewHandle(handleSeq, rec.create, a)
                        ELSE bSubConns[a]]
            /\ handleSeq' = handleSeq + Cardinality(rec.create)
            /\ newSubConns' = rec.create
            /\ removeSubConns' = {bSubConns[a] : a \in rec.remove \cap DOMAIN bSubConns}
            /\ resolverPrev' = resolverState
            /\ resolverState' = addrs
            /\ updates' = updates + 1
            /\ UNCHANGED notBal

(***************************************************************************)
(* stickyKeyFromContext: the override address read from the outgoing       *)
(* metadata of the request context.                                        *)
(***************************************************************************)
\* the keys that occur: OverWriteKeyName and the empty string
MDKeys == {"", "lb-addr"}

MDValues == {"host-a:443", "host-b:443"}

\* the lists of at most n elements of S
SeqsUpTo(S, n) == UNION {[1..k -> S] : k \in 0..n}

\* metadata.MD: a map from keys to lists of values
MDs == UNION {[D -> SeqsUpTo(MDValues, MaxVals)] : D \in SUBSET MDKeys}

\* a key-value list: key, value, key, value, ...
KVList(pairs) ==
    [i \in 1..(2 * Len(pairs)) |->
        IF i % 2 = 1 THEN pairs[(i + 1) \div 2][1] ELSE pairs[i \div 2][2]]

KVLists == {KVList(pairs) : pairs \in SeqsUpTo(MDKeys \X MDValues, MaxPairs)}

\* what metadata.FromOutgoingContextRaw(ctx) yields: md, added, ok
NoOutgoing == [ok |-> FALSE, md |-> <<>>, added |-> <<>>]

Outgoings ==
    {NoOutgoing} \cup
        [ok : {TRUE}, md : MDs, added : SeqsUpTo(KVLists, MaxAdded)]

NoSticky == [value |-> "", ok |-> FALSE]

\* for i := 0; i < len(ss)-1; i += 2 { if ss[i] == key { return ss[i+1], true } }
\* with positions counted from 1
RECURSIVE ScanList(_, _, _)
ScanList(ss, i, mdKey) ==
    IF ~(i < Len(ss)) THEN NoSticky
    ELSE IF ss[i] = mdKey THEN [value |-> ss[i + 1], ok |-> TRUE]
    ELSE ScanList(ss, i + 2, mdKey)

\* for _, ss := range added { ... }
RECURSIVE ScanAdded(_, _, _)
ScanAdded(added, l, mdKey) ==
    IF l > Len(added) THEN NoSticky
    ELSE LET found == ScanList(added[l], 1, mdKey)
         IN  IF found.ok THEN found ELSE ScanAdded(added, l + 1, mdKey)

StickyKeyAddedFirst(c, mdKey) ==
    IF mdKey = "" THEN NoSticky
    ELSE IF ~c.ok THEN NoSticky
    ELSE IF ScanAdded(c.added, 1, mdKey).ok THEN ScanAdded(c.added, 1, mdKey)
    ELSE IF mdKey \in DOMAIN c.md /\ Len(c.md[mdKey]) > 0
    THEN [value |-> c.md[mdKey][1], ok |-> TRUE]
    ELSE NoSticky

StickyKeyFromContext(c, mdKey) ==
    IF mdKey = "" THEN NoSticky
    ELSE IF ~c.ok THEN NoSticky
    ELSE IF mdKey \in DOMAIN c.md /\ Len(c.md[mdKey]) > 0
    THEN [value |-> c.md[mdKey][1], ok |-> TRUE]
    ELSE ScanAdded(c.added, 1, mdKey)

StickyParked ==
    /\ stickinessMDKey = ""
    /\ outgoing = NoOutgoing
    /\ stickyCalled = FALSE
    /\ sticky = NoSticky

\* a request context and a key, before the call
StickyStart ==
    /\ stickinessMDKey \in MDKeys
    /\ outgoing \in Outgoings
    /\ stickyCalled = FALSE
    /\ sticky = NoSticky

StickyCall ==
    /\ ~stickyCalled
    /\ stickyCalled' = TRUE
    /\ sticky' = StickyKeyFromContext(outgoing, stickinessMDKey)
    /\ UNCHANGED <<stickinessMDKey, outgoing, notSticky>>

(***************************************************************************)
(* Specifications.                                                         *)
(***************************************************************************)
IsRRParked ==
    /\ want = <<>>
    /\ tcR = <<>>
    /\ tcI = 0
    /\ row = 0
    /\ rrpc = "done"
    /\ wantSet = CountIn(<<>>)
    /\ gotSliceFirstIteration = <<>>
    /\ second = 0
    /\ result = "pending"

CSEParked == CSEStart /\ scStates = [h \in Handles |-> "Idle"]

NextCSE == RecordHandleTransition \/ RecordStrayTransition

InitCSE == CSEStart /\ PickerStart /\ RegStart /\ IsRRParked /\ BalStart /\ StickyParked

SpecCSE == InitCSE /\ [][NextCSE]_vars

NextPicker ==
    \/ Build
    \/ \E g \in Goroutines : Call(g)
    \/ \E g \in Goroutines : Lock(g)
    \/ \E g \in Goroutines : Choose(g)
    \/ \E g \in Goroutines : MoveCursor(g)
    \/ \E g \in Goroutines : Unlock(g)
    \/ \E g \in Goroutines : ErrPick(g)

InitPicker == PickerStart /\ CSEParked /\ RegStart /\ IsRRParked /\ BalStart /\ StickyParked

SpecPicker == InitPicker /\ [][NextPicker]_vars

\* the scheduler lets every goroutine that can take a step take one, and
\* sync.Mutex hands the lock to a goroutine that keeps waiting for it
PickFairness ==
    \A g \in Goroutines :
        /\ SF_vars(Lock(g))
        /\ WF_vars(Choose(g))
        /\ WF_vars(MoveCursor(g))
        /\ WF_vars(Unlock(g))

NextPickerFair ==
    \/ BuildFew
    \/ \E g \in Goroutines : Call(g)
    \/ \E g \in Goroutines : Lock(g)
    \/ \E g \in Goroutines : Choose(g)
    \/ \E g \in Goroutines : MoveCursor(g)
    \/ \E g \in Goroutines : Unlock(g)
    \/ \E g \in Goroutines : ErrPick(g)

SpecPickerFair == InitPicker /\ [][NextPickerFair]_vars /\ PickFairness

NextReg == RegisterCall \/ UnregisterCall \/ GetCall

InitReg == RegStart /\ CSEParked /\ PickerStart /\ IsRRParked /\ BalStart /\ StickyParked

SpecReg == InitReg /\ [][NextReg]_vars

NextIsRR == FirstIteration \/ FirstIterationOver \/ SecondIteration \/ ReturnNil

InitIsRR == IsRRStart /\ CSEParked /\ PickerStart /\ RegStart /\ BalStart /\ StickyParked

SpecIsRR == InitIsRR /\ [][NextIsRR]_vars

NextBal == UpdateClientConnState

InitBal == BalStart /\ CSEParked /\ PickerStart /\ RegStart /\ IsRRParked /\ StickyParked

SpecBal == InitBal /\ [][NextBal]_vars

NextSticky == StickyCall

InitSticky ==
    StickyStart /\ CSEParked /\ PickerStart /\ RegStart /\ IsRRParked /\ BalStart

SpecSticky == InitSticky /\ [][NextSticky]_vars

(***************************************************************************)
(* The claims.                                                             *)
(***************************************************************************)
\* C1: while every RecordTransition call names the handle's recorded state as
\* oldState, the value the last call returned is what a scan of all handles'
\* states yields: Ready if one is Ready, else Connecting if one is Connecting,
\* else TransientFailure.
C1_MatchesRescan ==
    (consistent /\ aggregated # "none") => aggregated = Rescan(scStates)

\* a handle left Ready while another is Connecting: the evaluator reports
\* Connecting after having counted a Ready handle in and out
C1_Witness ==
    /\ consistent
    /\ aggregated = "Connecting"
    /\ \E h \in Handles : scStates[h] = "Connecting"
    /\ \E h \in Handles : scStates[h] = "TransientFailure"

(***************************************************************************)
(* What the claims about the picker are stated with.                       *)
(***************************************************************************)
N == Len(subConns)

HasKey(e) == e.ctx # NoValue

\* the positions of the snapshot whose SubConn has address a
Matching(a) == {i \in 1..N : AddrOf(subConns[i]) = a}

Matched(e) == HasKey(e) /\ Matching(e.ctx) # {}

Unmatched(e) == HasKey(e) /\ Matching(e.ctx) = {}

Max(S) == CHOOSE x \in S : \A y \in S : y <= x

\* the number of entries of the log before position i that satisfy Test
CountBefore(i, Test(_)) == Cardinality({j \in 1..(i - 1) : Test(log[j])})

NoKeyEntry(e) == ~HasKey(e)

\* the SubConns a picker with snapshot scs and cursor c returns to k calls
\* in a row that carry no key, by position in the snapshot
RoundRobinFrom(scs, c, k) == [i \in 1..k |-> scs[((c + i - 1) % Len(scs)) + 1]]

\* the SubConns the log shows returned to the calls satisfying Test
Returned(Test(_)) ==
    LET picked == SelectSeq(log, Test)
    IN  [i \in 1..Len(picked) |-> picked[i].sc]

\* C2: on an rrPicker over N >= 1 handles, any N calls in a row that carry
\* no key get every handle of the snapshot exactly once, whatever the cursor
\* was at the first of them.
C2_EachHandleOnce ==
    picker = "rr" =>
        \A i \in 1..Len(log) :
            (i + N - 1 <= Len(log) /\ \A j \in i..(i + N - 1) : ~HasKey(log[j]))
                => \A k \in 1..N :
                       Cardinality({j \in i..(i + N - 1) : log[j].sc = subConns[k]}) = 1

\* three handles, a cursor started in the middle, three keyless calls done
C2_Witness ==
    /\ picker = "rr"
    /\ N = 3
    /\ cursor0 = 1
    /\ Len(log) = 3
    /\ \A j \in 1..3 : ~HasKey(log[j])

\* the calls of the log that carry no key, replayed one after the other on a
\* picker that never sees a call with a key
RECURSIVE ReplayNoKey(_, _)
ReplayNoKey(p, k) ==
    IF k = 0 THEN [p |-> p, out |-> <<>>]
    ELSE LET r == Lookup(p, NoValue)
             rest == ReplayNoKey(Advance(p), k - 1)
         IN  [p |-> rest.p, out |-> <<r.chosenSc>> \o rest.out]

KeylessAlone ==
    ReplayNoKey([subConns |-> subConns, next |-> cursor0],
                Len(SelectSeq(log, NoKeyEntry)))

\* calls with a key leave the cursor alone: the keyless calls get what they
\* get with the calls that carry a key removed, and between calls the cursor
\* is where the keyless calls alone leave it
KeyedCallsLeaveCursor ==
    /\ Returned(NoKeyEntry) = KeylessAlone.out
    /\ (\A g \in Goroutines : pc[g] \in {"idle", "lock"}) => next = KeylessAlone.p.next

\* C3 as stated: a call whose key is the address of a handle H of the
\* snapshot returns H, for every such H, and leaves the cursor alone.
C3_ReturnsEveryMatch ==
    picker = "rr" =>
        /\ \A i \in 1..Len(log) :
               \A h \in Matching(log[i].ctx) :
                   HasKey(log[i]) => log[i].sc = subConns[h]
        /\ KeyedCallsLeaveCursor

\* C3: a call whose key is the address of a handle of the snapshot returns
\* the last handle of the snapshot with that address (H itself when no later
\* handle shares H's address) whatever the cursor is, and leaves the cursor
\* unchanged: the keyless calls get the same handles in the same order as
\* with the calls that carry a key removed.
C3_ReturnsLastMatch ==
    picker = "rr" =>
        /\ \A i \in 1..Len(log) :
               Matched(log[i]) =>
                   /\ log[i].sc = subConns[Max(Matching(log[i].ctx))]
                   /\ log[i].err = "nil"
        /\ KeyedCallsLeaveCursor

\* a keyless call, then a call with the address of a handle that is not at
\* the cursor, then a keyless call
C3_Witness ==
    /\ picker = "rr"
    /\ N = 3
    /\ Len(log) = 3
    /\ ~HasKey(log[1])
    /\ Matched(log[2])
    /\ log[2].sc # subConns[next + 1]
    /\ ~HasKey(log[3])
    /\ log[3].sc # log[1].sc

\* the calls the claim C4 takes to move the cursor
MovesCursorAsClaimed(e) == ~HasKey(e) \/ Unmatched(e)

\* C4: a call whose key is the address of no handle of the snapshot is
\* served round-robin: it returns the handle at the cursor with a nil error
\* and moves the cursor on by one.
C4_UnmatchedFallsThrough ==
    picker = "rr" =>
        /\ \A i \in 1..Len(log) :
               Unmatched(log[i]) =>
                   /\ log[i].err = "nil"
                   /\ log[i].sc =
                        subConns[((cursor0 + CountBefore(i, MovesCursorAsClaimed)) % N) + 1]
        /\ (\A g \in Goroutines : pc[g] \in {"idle", "lock"}) =>
               next = (cursor0 + Len(SelectSeq(log, MovesCursorAsClaimed))) % N

\* C5: Build on an empty Ready set returns the error picker, whose every
\* Pick returns no SubConn and ErrNoSubConnAvailable; an rrPicker is built on
\* a non-empty Ready set only, so the length Pick divides by is never zero.
C5_EmptyReadySet ==
    /\ picker # "none" => (picker = "err" <=> readySCs = {})
    /\ picker = "err" =>
           \A i \in 1..Len(log) :
               log[i].sc = Nil /\ log[i].err = "ErrNoSubConnAvailable"
    /\ picker = "rr" => Len(subConns) > 0 /\ next \in 0..(Len(subConns) - 1)

\* the error picker has answered calls with and without a key
C5_Witness ==
    /\ picker = "err"
    /\ readySCs = {}
    /\ Len(log) >= 2
    /\ \E i, j \in 1..Len(log) : HasKey(log[i]) /\ ~HasKey(log[j])

\* keyless calls that have moved the cursor but not yet returned
Moved == {g \in Goroutines : pc[g] = "unlock" /\ ctx[g] = NoValue}

\* how often sc is among the first k handles from the cursor Build set
Expected(sc, k) ==
    Cardinality({i \in 1..k : RoundRobinFrom(subConns, cursor0, k)[i] = sc})

\* how often sc has been given to a keyless call
Given(sc) ==
    Cardinality({i \in 1..Len(log) : ~HasKey(log[i]) /\ log[i].sc = sc})
        + Cardinality({g \in Moved : chosenSc[g] = sc})

\* C6: with Pick calls running concurrently, the cursor is read and written
\* under the mutex by one call at a time, so K keyless calls from cursor c
\* get the handles at c, c+1, ..., c+K-1 modulo N, each as often as it occurs
\* there, and leave the cursor at (c+K) mod N.
C6_ConcurrentPicksSerialized ==
    picker = "rr" =>
        LET inside == {g \in Goroutines : pc[g] \in {"locked", "chosen", "unlock"}}
            K == Len(SelectSeq(log, NoKeyEntry)) + Cardinality(Moved)
        IN  /\ Cardinality(inside) <= 1
            /\ mu <=> inside # {}
            /\ next = (cursor0 + K) % N
            /\ \A sc \in SubConnIds : Given(sc) = Expected(sc, K)

\* one keyless call has moved the cursor and holds the mutex while another
\* waits for it, after an earlier keyless call has returned
C6_Witness ==
    /\ picker = "rr"
    /\ N >= 2
    /\ \E g, h \in Goroutines :
           /\ pc[g] = "unlock" /\ ctx[g] = NoValue
           /\ pc[h] = "lock" /\ ctx[h] = NoValue
    /\ \E i \in 1..Len(log) : ~HasKey(log[i])

\* C8: once the picker is built no step of a Pick call changes subConns,
\* with or without a key and however the calls interleave.
C8_SnapshotImmutable == [][picker = "rr" => subConns' = subConns]_vars

\* calls with and without a key have returned and the cursor has moved
C8_Witness ==
    /\ picker = "rr"
    /\ N >= 2
    /\ next # cursor0
    /\ \E i, j \in 1..Len(log) : Matched(log[i]) /\ ~HasKey(log[j])

\* C9: a Pick of an rrPicker that returns a nil error returns a SubConn of
\* the snapshot, never the nil SubConn, whether the call carries a key or not.
C9_ReturnsSnapshotMember ==
    picker = "rr" =>
        \A i \in 1..Len(log) :
            log[i].err = "nil" =>
                log[i].sc # Nil /\ \E k \in 1..N : log[i].sc = subConns[k]

\* whether names a and b differ in the case of letters only
SameLetter(c, d) ==
    c = d \/ \E k \in DOMAIN Uppers : {c, d} = {Uppers[k], Lowers[k]}

EqualFold(a, b) == Len(a) = Len(b) /\ \A i \in 1..Len(a) : SameLetter(a[i], b[i])

\* the Builder registered last under a name that differs from name in case
\* at most, nil if there is none
LastRegistered(name) ==
    LET S == {i \in 1..Len(registered) : EqualFold(registered[i].name, name)}
    IN  IF S = {} THEN NilBuilder ELSE registered[Max(S)]

\* C7: after Register calls only, Get(name) is the Builder registered last
\* under a name equal to name up to the case of letters, and nil if no
\* Builder was registered under such a name.
C7_GetReturnsLastRegistered ==
    unregs = 0 =>
        /\ \A name \in Names : Get(m, name) = LastRegistered(name)
        /\ got.b # NilBuilder =>
               \E i \in 1..Len(registered) :
                   registered[i] = got.b /\ EqualFold(got.b.name, got.name)

\* two Builders registered under names that differ in case only, then a
\* lookup under a third spelling that gets the second Builder, while a name
\* nothing was registered under gets nil
C7_Witness ==
    /\ unregs = 0
    /\ Len(registered) = 2
    /\ registered[1].name = <<"R", "R">>
    /\ registered[2].name = <<"r", "r">>
    /\ got.name = <<"r", "R">>
    /\ got.b = registered[2]
    /\ Get(m, <<"X", "d", "S", "_", "1">>) = NilBuilder

\* the j-th value f produces, j = 0, 1, ...
Produced(j) == tcR[(j % Len(tcR)) + 1]

\* how often sc is among the first n values f produces
ProducedCount(sc, n) == Cardinality({j \in 0..(n - 1) : Produced(j) = sc})

\* the first len(want) values of f are want in some order, and the next
\* len(want) values are the first len(want) values again, in their order
RoundRobinOfWant ==
    LET n == Len(want)
    IN  /\ \A sc \in TestSubConnIds : ProducedCount(sc, n) = CountIn(want)[sc]
        /\ \A j \in 0..(n - 1) : Produced(n + j) = Produced(j)

HandlesIn(st) == {h \in Handles : scStates[h] = st}

\* the states that neither counter counts
Uncounted == {"Idle", "TransientFailure", "Shutdown"}

\* the channel state that belongs to counter values nr and nc
ChannelStateOf(nr, nc) ==
    IF nr # Zero64 THEN "Ready"
    ELSE IF nc # Zero64 THEN "Connecting"
    ELSE "TransientFailure"

\* C15: while every call names the handle's recorded state as oldState,
\* numReady is the number of handles in Ready and numConnecting the number
\* of handles in Connecting, so neither counter has wrapped below zero.
C15_CountersCountHandles ==
    consistent =>
        /\ numReady = ToUint64(Cardinality(HandlesIn("Ready")))
        /\ numConnecting = ToUint64(Cardinality(HandlesIn("Connecting")))

\* every handle is Ready, after one of them has been Connecting and Ready
\* before
C15_Witness ==
    /\ consistent
    /\ HandlesIn("Ready") = Handles
    /\ numReady = ToUint64(NumHandles)
    /\ lastCall = [oldState |-> "Connecting", newState |-> "Ready"]

\* C16: a call with oldState and newState both among Idle, TransientFailure
\* and Shutdown leaves numReady and numConnecting as they are and returns the
\* channel state of these unchanged counters.
C16_UncountedStatesLeaveCounters ==
    [][(lastCall'.oldState \in Uncounted /\ lastCall'.newState \in Uncounted)
           => /\ numReady' = numReady
              /\ numConnecting' = numConnecting
              /\ aggregated' = ChannelStateOf(numReady, numConnecting)]_vars

\* a handle went from Idle to Shutdown while another handle is Connecting
C16_Witness ==
    /\ consistent
    /\ lastCall = [oldState |-> "Idle", newState |-> "Shutdown"]
    /\ aggregated = "Connecting"
    /\ numConnecting = ToUint64(1)

\* C17: RecordTransition returns Ready, Connecting or TransientFailure only,
\* whatever the states it is called with and whatever the counters are, and
\* TransientFailure as long as no call has named Ready or Connecting.
C17_ReturnsChannelStates ==
    /\ aggregated \in {"none", "Ready", "Connecting", "TransientFailure"}
    /\ (~seenRC /\ aggregated # "none") => aggregated = "TransientFailure"

\* all handles are Idle, one of them came from Shutdown, and the evaluator
\* has answered TransientFailure
C17_Witness ==
    /\ ~seenRC
    /\ \A h \in Handles : scStates[h] = "Idle"
    /\ lastCall = [oldState |-> "Shutdown", newState |-> "Idle"]
    /\ aggregated = "TransientFailure"

\* C18: a call with oldState = newState leaves both counters as they are,
\* also when the counter of that state is 0: the step down wraps it to
\* 2^64 - 1 and the step up wraps it back.
C18_SameStateLeavesCounters ==
    [][lastCall'.oldState = lastCall'.newState
           => numReady' = numReady /\ numConnecting' = numConnecting]_vars

\* RecordTransition(Ready, Ready) was called with numReady at 0
C18_Witness ==
    /\ lastCall = [oldState |-> "Ready", newState |-> "Ready"]
    /\ numReady = Zero64
    /\ aggregated = "TransientFailure"

\* C19: a call that leaves Ready (or Connecting) while the counter of that
\* state is 0 keeps the counter at 0 and does not make the evaluator report
\* that state.
C19_LeaveAtZeroStaysAtZero ==
    [][/\ (lastCall'.oldState = "Ready" /\ lastCall'.newState # "Ready"
               /\ numReady = Zero64)
           => (numReady' = Zero64 /\ aggregated' # "Ready")
       /\ (lastCall'.oldState = "Connecting" /\ lastCall'.newState # "Connecting"
               /\ numConnecting = Zero64 /\ numReady' = Zero64)
           => (numConnecting' = Zero64 /\ aggregated' # "Connecting")]_vars

(***************************************************************************)
(* Further claims about the picker.                                        *)
(***************************************************************************)
\* the handle at position i, counted from 0 and taken modulo N
HandleAt(i) == subConns[(i % N) + 1]

\* the number of keyless calls that have returned
KeylessReturned == Len(SelectSeq(log, NoKeyEntry))

\* C12: on an rrPicker over s of length N built with cursor c, the k-th call
\* without a key (k = 0, 1, 2, ...) returns s[(c + k) mod N] and leaves the
\* cursor at (c + k + 1) mod N.
C12_KthKeylessPick ==
    picker = "rr" =>
        /\ \A k \in 0..(KeylessReturned - 1) :
               Returned(NoKeyEntry)[k + 1] = HandleAt(cursor0 + k)
        /\ \A g \in Moved :
               /\ chosenSc[g] = HandleAt(cursor0 + KeylessReturned)
               /\ next = (cursor0 + KeylessReturned + 1) % N
        /\ Moved = {} => next = (cursor0 + KeylessReturned) % N

\* s = (sc1, sc2, sc3) and c = 1: two keyless calls have returned sc2 and
\* sc3, the third has chosen sc1 and moved the cursor back to 1
C12_Witness ==
    /\ picker = "rr"
    /\ subConns = <<1, 2, 3>>
    /\ cursor0 = 1
    /\ Returned(NoKeyEntry) = <<2, 3>>
    /\ \E g \in Moved : chosenSc[g] = 1
    /\ next = 1

\* C13: the cursor of an rrPicker is an index into subConns in every
\* reachable state, whatever calls run and however they interleave.
C13_CursorInRange ==
    picker = "rr" => (next >= 0 /\ next < Len(subConns))

\* the cursor has gone round a snapshot of two handles with two calls in
\* flight: one has moved it from N - 1 back to 0, the other waits
C13_Witness ==
    /\ picker = "rr"
    /\ N = 2
    /\ next = 0
    /\ \E i \in 1..Len(log) : ~HasKey(log[i])
    /\ \E g, h \in Goroutines :
           /\ pc[g] = "unlock" /\ ctx[g] = NoValue
           /\ pc[h] = "lock"

\* C14: the mutex is free whenever no Pick call is in progress, and under
\* fair scheduling every Pick call that has started acquires the mutex and
\* returns, on each of its paths.
C14_PickReleasesMutex ==
    /\ []((\A g \in Goroutines : pc[g] = "idle") => ~mu)
    /\ \A g \in Goroutines : (pc[g] = "lock") ~> (pc[g] = "locked")
    /\ \A g \in Goroutines : (pc[g] # "idle") ~> (pc[g] = "idle")

\* a call with a matching key, a call with a key that matches nothing and a
\* keyless call have all returned, and the mutex is free
C14_Witness ==
    /\ picker = "rr"
    /\ \A g \in Goroutines : pc[g] = "idle"
    /\ ~mu
    /\ \E i, j, k \in 1..Len(log) :
           /\ Matched(log[i])
           /\ Unmatched(log[j])
           /\ ~HasKey(log[k])

(***************************************************************************)
(* A further claim about the registry.                                     *)
(***************************************************************************)
\* C20: Register(b) followed by unregisterForTesting(b.Name()) removes the
\* entry, for every name, names with upper-case letters included: after it
\* Get(b.Name()) is nil and what Get returns for every name that differs
\* from b.Name() in more than case is what it returned before.
C20_UnregisterRemovesEntry ==
    [][(/\ unregs' = unregs + 1
        /\ registered # <<>>
        /\ unregName' = registered[Len(registered)].name)
           => /\ Get(m', unregName') = NilBuilder
              /\ \A name \in Names :
                     ~EqualFold(name, unregName') => Get(m', name) = Get(m, name)]_vars

(***************************************************************************)
(* A claim about the balancer.                                             *)
(***************************************************************************)
\* C11: an UpdateClientConnState call with the resolver state of the call
\* before it creates no SubConn and removes none, and leaves every address
\* with the handle it had.
C11_SameStateNoChurn ==
    [][(updates >= 1 /\ updates' = updates + 1 /\ resolverState' = resolverState)
           => /\ newSubConns' = {}
              /\ removeSubConns' = {}
              /\ bSubConns' = bSubConns]_vars

\* the third call repeats the two addresses of the second: both handles
\* exist, none is created and none removed
C11_Witness ==
    /\ updates = 3
    /\ resolverState = resolverPrev
    /\ AddrsOf(resolverState) = AddressSet
    /\ newSubConns = {}
    /\ removeSubConns = {}
    /\ handleSeq = 2

(***************************************************************************)
(* A further claim about the address override.                             *)
(***************************************************************************)
\* the positions of the snapshot after position i
After(i) == {j \in 1..N : j > i}

\* C21: a call with a key gets a handle whose address is the key letter for
\* letter, case included, and of the handles with that address the one that
\* comes last in the snapshot; a key that is no handle's address, be it the
\* address of one in another case, selects no handle.
C21_ExactMatchLastWins ==
    picker = "rr" =>
        \A i \in 1..Len(log) :
            HasKey(log[i]) =>
                \/ /\ log[i].sc = Nil
                   /\ \A j \in 1..N : AddrOf(subConns[j]) # log[i].ctx
                \/ \E j \in 1..N :
                       /\ log[i].sc = subConns[j]
                       /\ AddrOf(subConns[j]) = log[i].ctx
                       /\ \A k \in After(j) : AddrOf(subConns[k]) # log[i].ctx

\* the snapshot is (sc3, sc2, sc1) with sc3 and sc1 at host-a:443: the key
\* host-a:443 got sc1, the later of the two, and the key HOST-A:443 got none
C21_Witness ==
    /\ picker = "rr"
    /\ subConns = <<3, 2, 1>>
    /\ AddrOf(3) = AddrOf(1)
    /\ \E i, j \in 1..Len(log) :
           /\ log[i].ctx = "host-a:443" /\ log[i].sc = 1
           /\ log[j].ctx = "HOST-A:443" /\ log[j].sc = Nil

(***************************************************************************)
(* The claim about stickyKeyFromContext.                                   *)
(***************************************************************************)
\* the key has a value in the metadata map
InMD == stickinessMDKey \in DOMAIN outgoing.md /\ outgoing.md[stickinessMDKey] # <<>>

\* where the key stands in the appended lists at an even position counted
\* from 0: the list and the position counted from 1
Occurrences ==
    {lp \in (1..Len(outgoing.added)) \X (1..(2 * MaxPairs)) :
        /\ lp[2] <= Len(outgoing.added[lp[1]])
        /\ lp[2] % 2 = 1
        /\ outgoing.added[lp[1]][lp[2]] = stickinessMDKey}

FirstOccurrence ==
    CHOOSE lp \in Occurrences :
        \A lq \in Occurrences : lp[1] < lq[1] \/ (lp[1] = lq[1] /\ lp[2] <= lq[2])

====
